---- MODULE Spec2Model ----
(***************************************************************************)
(* The spoiler storage, caching and reveal subsystem of cogs/buttons.py:   *)
(* the publish pipeline (Buttons.spoiler / Buttons.redirect_post), the     *)
(* two-fetch reconstruction (Buttons.get_spoiler_cache) in front of the    *)
(* LRU(128) lookup cache, the two reveal paths (SpoilerView.reveal_spoiler *)
(* and Buttons.on_raw_reaction_add) and the per-(message, user) cooldown   *)
(* (SpoilerCooldown).                                                      *)
(*                                                                         *)
(* Text (titles, bodies, file names, embed slots) is a sequence of         *)
(* one-character strings, so that str(), int(), lower() and endswith()     *)
(* are computed and not assumed.  An Optional value is None (<<>>) or      *)
(* Some(x) (<<x>>).  Snowflake ids are small naturals.                     *)
(***************************************************************************)
EXTENDS Integers, Sequences, FiniteSets, TLC

VARIABLES
    messages,      \* the remote store: message id -> message (all channels)
    nextId,        \* the next snowflake the remote store hands out
    storageUp,     \* whether Buttons.storage_channel resolves
    spoilerCache,  \* Buttons._spoiler_cache: LRU, most recently used first
    cooldown,      \* Buttons._spoiler_cooldown._cache: key -> Cooldown
    now,           \* time.time(), in seconds
    tasks,         \* the reveal handlers in flight, by slot
    lastDone,      \* the reveal handler that ended last, as it ended
    pub,           \* the spoiler command in flight or finished
    lastAllow,     \* history: the latest is_rate_limited call and its result
    consumedAt,    \* history: key -> when its token was last consumed
    solo,          \* history: key -> the Cooldown of a mapping that only
                   \*          ever saw that key's calls
    firstRec,      \* history: cache key -> the first record cached under it
    accessed,      \* history: cache key -> rank of its last access among the
                   \*          cached keys (1 is the least recently accessed)
    lastPut        \* history: the latest cache insert and what it evicted

vars == <<messages, nextId, storageUp, spoilerCache, cooldown, now, tasks, lastDone, pub,
          lastAllow, consumedAt, solo, firstRec, accessed, lastPut>>

-----------------------------------------------------------------------------
(* Optional values and text                                                *)

None == <<>>
Some(x) == <<x>>
IsSome(o) == Len(o) > 0
Get(o) == o[1]

Max(a, b) == IF a > b THEN a ELSE b

DigitChars == <<"0", "1", "2", "3", "4", "5", "6", "7", "8", "9">>
IsDigit(c) == \E i \in 1..10 : DigitChars[i] = c
DigitVal(c) == (CHOOSE i \in 1..10 : DigitChars[i] = c) - 1

RECURSIVE NatToStr(_)
NatToStr(n) ==
    IF n < 10 THEN <<DigitChars[n + 1]>>
    ELSE NatToStr(n \div 10) \o <<DigitChars[(n % 10) + 1]>>

\* str(n) of a Python int
IntToStr(n) == IF n < 0 THEN <<"-">> \o NatToStr(0 - n) ELSE NatToStr(n)

IsSpace(c) == c = " "

RECURSIVE LStrip(_)
LStrip(s) == IF s /= <<>> /\ IsSpace(Head(s)) THEN LStrip(Tail(s)) ELSE s

RECURSIVE RStrip(_)
RStrip(s) ==
    IF s /= <<>> /\ IsSpace(s[Len(s)]) THEN RStrip(SubSeq(s, 1, Len(s) - 1)) ELSE s

Strip(s) == RStrip(LStrip(s))

RECURSIVE DigitsVal(_)
DigitsVal(s) ==
    IF s = <<>> THEN 0
    ELSE 10 * DigitsVal(SubSeq(s, 1, Len(s) - 1)) + DigitVal(s[Len(s)])

AllDigits(s) == s /= <<>> /\ \A i \in 1..Len(s) : IsDigit(s[i])

Failed == [ok |-> FALSE, val |-> 0]

\* int(s) of a Python str: surrounding whitespace and one sign are accepted,
\* anything else raises ValueError
ParseStr(s) ==
    LET t == Strip(s)
        signed == t /= <<>> /\ Head(t) \in {"-", "+"}
        d == IF signed THEN Tail(t) ELSE t
    IN IF AllDigits(d)
       THEN [ok |-> TRUE,
             val |-> IF signed /\ Head(t) = "-" THEN 0 - DigitsVal(d) ELSE DigitsVal(d)]
       ELSE Failed

\* int(o) of an Optional[str]: int(None) raises TypeError
ParseInt(o) == IF IsSome(o) THEN ParseStr(Get(o)) ELSE Failed

Uppers == <<"A", "B", "C", "D", "E", "F", "G", "H", "I", "J", "K", "L", "M",
            "N", "O", "P", "Q", "R", "S", "T", "U", "V", "W", "X", "Y", "Z">>
Lowers == <<"a", "b", "c", "d", "e", "f", "g", "h", "i", "j", "k", "l", "m",
            "n", "o", "p", "q", "r", "s", "t", "u", "v", "w", "x", "y", "z">>

LowerChar(c) ==
    IF \E i \in 1..26 : Uppers[i] = c
    THEN Lowers[CHOOSE i \in 1..26 : Uppers[i] = c]
    ELSE c

\* str.lower()
Lower(s) == [i \in 1..Len(s) |-> LowerChar(s[i])]

\* str.endswith(suffix)
EndsWith(s, suf) ==
    Len(suf) <= Len(s) /\ SubSeq(s, Len(s) - Len(suf) + 1, Len(s)) = suf

\* str.endswith(tuple of suffixes)
EndsWithAny(s, sufs) == \E i \in 1..Len(sufs) : EndsWith(s, sufs[i])

\* bool(text) of an Optional[str]
Truthy(o) == IsSome(o) /\ Get(o) /= <<>>

-----------------------------------------------------------------------------
(* SpoilerCooldown: commands.CooldownMapping over commands.Cooldown(1, 10) *)

rate == 1
per == 10

NewCooldown == [window |-> 0, tokens |-> rate, last |-> 0]

\* a variant of get_tokens that refills at the end of the window already (>=)
GetTokensAtWindowEnd(b, current) ==
    IF current >= b.window + per THEN rate ELSE Max(b.tokens, 0)

\* Cooldown.get_tokens(current)
get_tokens(b, current) ==
    IF current > b.window + per THEN rate ELSE Max(b.tokens, 0)

\* a variant of update_rate_limit in which every call starts a new window
update_rate_limit_sliding(b, current) ==
    LET t == get_tokens(b, current)
    IN [bucket |-> [window |-> current, tokens |-> t - 1, last |-> current],
        retry  |-> IF t - 1 < 0 THEN Some(per) ELSE None]

\* Cooldown.update_rate_limit(current): the bucket after the call and the
\* retry-after it returns (None when the call is let through)
update_rate_limit(b, current) ==
    LET t == get_tokens(b, current)
        w == IF t = rate THEN current ELSE b.window
    IN [bucket |-> [window |-> w, tokens |-> t - 1, last |-> current],
        retry  |-> IF t - 1 < 0 THEN Some(per - (current - w)) ELSE None]

\* a variant of _bucket_key that forgets the user
BucketKeyByMessage(tup) == <<tup[1], 0>>

\* SpoilerCooldown._bucket_key
_bucket_key(tup) == tup

\* CooldownMapping._verify_cache_integrity(current)
_verify_cache_integrity(cache, current) ==
    [k \in {x \in DOMAIN cache : ~(current > cache[x].last + per)} |-> cache[k]]

\* a variant that takes no token from the bot account 9
is_rate_limited_bots_free(cache, message_id, user_id, current) ==
    LET live == _verify_cache_integrity(cache, current)
        key == _bucket_key(<<message_id, user_id>>)
        bucket == IF key \in DOMAIN live THEN live[key] ELSE NewCooldown
        r == update_rate_limit(bucket, current)
    IN [cache |-> [k \in DOMAIN live \cup {key} |->
                      IF k /= key THEN live[k]
                      ELSE IF user_id = 9 THEN NewCooldown ELSE r.bucket],
        limited |-> user_id /= 9 /\ IsSome(r.retry)]

\* CooldownMapping.get_bucket, then Cooldown.update_rate_limit on the bucket:
\* the mapping after the call and whether the caller is rate limited
is_rate_limited(cache, message_id, user_id, current) ==
    LET live == _verify_cache_integrity(cache, current)
        key == _bucket_key(<<message_id, user_id>>)
        bucket == IF key \in DOMAIN live THEN live[key] ELSE NewCooldown
        r == update_rate_limit(bucket, current)
    IN [cache |-> [k \in DOMAIN live \cup {key} |->
                      IF k = key THEN r.bucket ELSE live[k]],
        limited |-> IsSome(r.retry)]

-----------------------------------------------------------------------------
(* Buttons._spoiler_cache = LRU(128): a list of (key, value), most         *)
(* recently used first                                                     *)

LRU_SIZE == 128

CacheKeys(c) == {c[i].key : i \in 1..Len(c)}
CacheIndex(c, k) == CHOOSE i \in 1..Len(c) : c[i].key = k
CacheValue(c, k) == c[CacheIndex(c, k)].value
Without(c, k) == SelectSeq(c, LAMBDA e : e.key /= k)

\* a variant of a read that leaves the order alone
LRUTouchNothing(c, k) == c

\* LRU.__getitem__ on a key that is present: the entry moves to the head
LRUTouch(c, k) == <<c[CacheIndex(c, k)]>> \o Without(c, k)

\* a variant of an insert that keeps the old entry of a key beside the new one
LRUSetDuplicates(c, k, v) == <<[key |-> k, value |-> v]>> \o c

\* a variant of an insert that stores nothing
LRUSetNothing(c, k, v) == c

\* a variant of an insert that never drops the tail
LRUSetNoEvict(c, k, v) == <<[key |-> k, value |-> v]>> \o Without(c, k)

\* LRU.__setitem__: a present key is overwritten and moved to the head; a new
\* key goes to the head, after the tail is dropped when the cache is full
LRUSet(c, k, v) ==
    IF k \in CacheKeys(c) THEN <<[key |-> k, value |-> v]>> \o Without(c, k)
    ELSE IF Len(c) >= LRU_SIZE
         THEN <<[key |-> k, value |-> v]>> \o SubSeq(c, 1, LRU_SIZE - 1)
         ELSE <<[key |-> k, value |-> v]>> \o c

-----------------------------------------------------------------------------
(* SpoilerCache and the two embeds that carry it                           *)

SpoilerSuffix == <<" ", "S", "p", "o", "i", "l", "e", "r">>
ImageSuffix == <<" ", "I", "m", "a", "g", "e">>
\* 'This spoiler has been hidden. Press the button to reveal it!'
HiddenDescription == <<"h", "i", "d", "d", "e", "n">>

image_suffixes ==
    << <<".", "g", "i", "f">>, <<".", "p", "n", "g">>, <<".", "j", "p", "g">>,
       <<".", "j", "p", "e", "g">> >>

\* SpoilerCache.has_single_image
has_single_image(rec) ==
    /\ rec.attachments /= <<>>
    /\ EndsWithAny(Lower(rec.attachments[1].filename), image_suffixes)

\* SpoilerCache.to_embed: what a reveal shows
to_embed(rec) ==
    LET base == IF IsSome(rec.title) THEN Get(rec.title) ELSE <<"N", "o", "n", "e">>
        single == has_single_image(rec)
    IN [title |-> IF single /\ ~IsSome(rec.text)
                  THEN base \o SpoilerSuffix \o ImageSuffix
                  ELSE base \o SpoilerSuffix,
        description |-> IF Truthy(rec.text) THEN rec.text ELSE None,
        image |-> IF single THEN Some(rec.attachments[1].filename) ELSE None,
        attachments |-> IF single THEN Tail(rec.attachments) ELSE rec.attachments]

\* SpoilerCache.to_spoiler_embed: the embed of the front-door post
to_spoiler_embed(rec, author, storage_message_id) ==
    [title |-> Some(IF has_single_image(rec) /\ ~IsSome(rec.text)
                    THEN Get(rec.title) \o SpoilerSuffix \o ImageSuffix
                    ELSE Get(rec.title) \o SpoilerSuffix),
     description |-> Some(HiddenDescription),
     author_name |-> Some(<<"u">> \o IntToStr(author)),
     footer_text |-> Some(IntToStr(storage_message_id))]

\* the embed redirect_post sends to the storage channel
ArchiveEmbed(author_id, channel_id, title, text) ==
    [title |-> Some(title),
     description |-> IF Truthy(text) THEN text ELSE None,
     author_name |-> Some(IntToStr(author_id)),
     footer_text |-> Some(IntToStr(channel_id))]

\* the SpoilerCache redirect_post returns
PublishedRecord(author_id, channel_id, title, text, attachments) ==
    [author_id |-> author_id, channel_id |-> channel_id, title |-> Some(title),
     text |-> text, attachments |-> attachments]

\* whether building to_dict from the storage message raises
DecodeFails(msg) ==
    \/ msg.embeds = <<>>
    \/ ~ParseInt(msg.embeds[1].author_name).ok
    \/ ~ParseInt(msg.embeds[1].footer_text).ok

\* the SpoilerCache get_spoiler_cache builds from the storage message
Decode(msg) ==
    LET data == msg.embeds[1]
    IN [author_id |-> ParseInt(data.author_name).val,
        channel_id |-> ParseInt(data.footer_text).val,
        title |-> data.title,
        text |-> IF ~Truthy(data.description) THEN None ELSE data.description,
        attachments |-> msg.attachments]

-----------------------------------------------------------------------------
(* The remote store, the users and the model's bounds                      *)

MaxTasks == 2       \* reveal handlers that may be in flight together
MaxPublishes == 1   \* spoiler commands a behaviour may run
StartTime == 20     \* time.time() when the process starts
MaxTime == 35       \* the clock stops here
TickStep == 5       \* the seconds one step of the clock takes
MaxAttachments == 3 \* attachments of one command

\* guild.get_channel(430229522340773899): the storage channel (small stand-in)
StorageChannel == 9
\* the channels bot.get_channel resolves; channel 6 exists and is not cached
OriginChannels == {5}
KnownChannels == OriginChannels \cup {StorageChannel}

\* payload.emoji.id compared with SPOILER_EMOJI_ID (430469957042831371)
SPOILER_EMOJI_ID == "spoiler"
Emojis == {SPOILER_EMOJI_ID, "other"}

\* user ids; 8 is not in the bot's user cache, 9 is a bot account
Users == {7, 8, 9}
IsBot(u) == u = 9
UserCached(u) == u /= 8

NoMsg == [exists |-> FALSE, channel |-> 0, embeds |-> <<>>, attachments |-> <<>>,
          view |-> FALSE]

Msg(channel, embeds, attachments, view) ==
    [exists |-> TRUE, channel |-> channel, embeds |-> embeds,
     attachments |-> attachments, view |-> view]

Cat == <<"c", "a", "t">>
Boo == <<"b", "o", "o">>
MiB == 1024 * 1024
ImgPng == [filename |-> <<"i", "m", "g", ".", "p", "n", "g">>, size |-> 2 * MiB]

\* a spoiler post published before the process started: front-door post 1 in
\* channel 5, its storage message 2
OldRecord == PublishedRecord(7, 5, Cat, None, <<ImgPng>>)
OldFrontDoor == Msg(5, <<to_spoiler_embed(OldRecord, 7, 2)>>, <<>>, TRUE)
OldArchive == Msg(StorageChannel, <<ArchiveEmbed(7, 5, Cat, None)>>, <<ImgPng>>, FALSE)

Embed(title, description, author_name, footer_text) ==
    [title |-> title, description |-> description, author_name |-> author_name,
     footer_text |-> footer_text]

\* message 3: a message of an origin channel that is no spoiler post, or one
\* whose footer leads to message 4
ForeignFront ==
    { Msg(5, <<>>, <<>>, FALSE),
      Msg(5, <<Embed(Some(Cat), None, None, None)>>, <<>>, FALSE),
      Msg(5, <<Embed(Some(Cat), None, None, Some(<<"h", "i">>))>>, <<>>, FALSE),
      Msg(5, <<Embed(Some(Cat), None, None, Some(<<" ", "4">>))>>, <<>>, TRUE),
      Msg(5, <<Embed(Some(Cat), None, None, Some(<<"4", "0">>))>>, <<>>, TRUE),
      Msg(6, <<Embed(Some(Cat), None, None, Some(<<"4">>))>>, <<>>, TRUE) }

\* message 4: a message of the storage channel that is well formed or not
ForeignArchive ==
    { Msg(StorageChannel, <<>>, <<>>, FALSE),
      Msg(StorageChannel, <<Embed(Some(Boo), None, Some(<<"b", "o", "b">>), Some(<<"5">>))>>,
          <<>>, FALSE),
      Msg(StorageChannel, <<Embed(Some(Boo), None, Some(<<"7">>), None)>>, <<>>, FALSE),
      Msg(StorageChannel, <<Embed(Some(Boo), Some(Boo), Some(<<"7">>), Some(<<"5">>))>>,
          <<>>, FALSE) }

Preloaded(m3, m4) == <<OldFrontDoor, OldArchive, m3, m4>>

Empty == [x \in {} |-> 0]

\* channel.fetch_message(id): the message, when it exists in that channel
CanFetch(store, channel, id) ==
    id \in DOMAIN store /\ store[id].exists /\ store[id].channel = channel

-----------------------------------------------------------------------------
(* History of cache accesses: rank 1 is the least recently accessed key    *)

RankTouch(acc, k) ==
    [x \in DOMAIN acc |->
        IF x = k THEN Cardinality(DOMAIN acc)
        ELSE IF acc[x] > acc[k] THEN acc[x] - 1 ELSE acc[x]]

RankPut(acc, k, keysAfter) ==
    IF k \in DOMAIN acc THEN RankTouch(acc, k)
    ELSE LET kept == DOMAIN acc \cap keysAfter
             gone == DOMAIN acc \ keysAfter
         IN [x \in kept \cup {k} |->
                IF x = k THEN Cardinality(kept) + 1
                ELSE acc[x] - Cardinality({y \in gone : acc[y] < acc[x]})]

PutRecord(acc, k, keysAfter) ==
    [key |-> k,
     was_new |-> k \notin DOMAIN acc,
     size_before |-> Cardinality(DOMAIN acc),
     gone |-> DOMAIN acc \ keysAfter,
     oldest |-> {x \in DOMAIN acc : acc[x] = 1}]

NoPut == [key |-> 0, was_new |-> FALSE, size_before |-> 0, gone |-> {}, oldest |-> {}]

-----------------------------------------------------------------------------
(* Reveal handlers.  A handler runs from one await to the next in one      *)
(* step; pc names the await it is suspended at.                            *)

IdleTask ==
    [kind |-> "idle", pc |-> "idle", channel_id |-> 0, message_id |-> 0,
     user |-> 0, emoji |-> "none", storage_message_id |-> 0,
     calls |-> 0, fetches |-> 0, writes |-> 0, result |-> None, fault |-> FALSE,
     out |-> "none", shown |-> None,
     \* history, written when the event arrives and when the lookup starts
     wasCached |-> FALSE, cachedRec |-> None, allows |-> FALSE, limited |-> FALSE]

\* a new handler takes the lowest free slot
FreeSlots == {t \in DOMAIN tasks : tasks[t].pc = "idle"}
Free(t) == t \in FreeSlots /\ \A x \in FreeSlots : t <= x

\* a variant in which the answer to a button press takes the button off the post
ResponseStoreEdited(store, tk) ==
    IF tk.out = "ephemeral_embed"
    THEN [store EXCEPT ![tk.message_id].view = FALSE]
    ELSE store

\* the messages of the channels after the handler that ended as tk has
\* answered: send_message(..., ephemeral=True) and user.send(...) add no
\* message to a channel and edit none
ResponseStore(store, tk) == store

\* the handler of slot t goes on as tk, or has ended as tk
Settle(t, tk) ==
    IF tk.pc = "done"
    THEN /\ tasks' = [tasks EXCEPT ![t] = IdleTask]
         /\ lastDone' = tk
         /\ messages' = ResponseStore(messages, tk)
    ELSE /\ tasks' = [tasks EXCEPT ![t] = tk]
         /\ UNCHANGED <<lastDone, messages>>

\* reveal_spoiler after get_spoiler_cache returned: one ephemeral response
\* (an exception out of get_spoiler_cache leaves the interaction unanswered)
ButtonRespond(tk) ==
    IF tk.fault THEN [tk EXCEPT !.pc = "done"]
    ELSE IF IsSome(tk.result)
         THEN [tk EXCEPT !.pc = "done", !.out = "ephemeral_embed",
                         !.shown = Some(to_embed(Get(tk.result)))]
         ELSE [tk EXCEPT !.pc = "done", !.out = "ephemeral_not_found"]

\* on_raw_reaction_add after get_spoiler_cache returned: a direct message
\* when there is a record, nothing otherwise
ReactionRespond(tk) ==
    IF ~tk.fault /\ IsSome(tk.result)
    THEN [tk EXCEPT !.pc = "done", !.out = "dm",
                    !.shown = Some(to_embed(Get(tk.result)))]
    ELSE [tk EXCEPT !.pc = "done"]

Respond(tk) == IF tk.kind = "button" THEN ButtonRespond(tk) ELSE ReactionRespond(tk)

\* get_spoiler_cache returns r (None: not found) to its caller
Return(tk, r) == Respond([tk EXCEPT !.result = r])

\* an exception leaves get_spoiler_cache
Raise(tk) == Respond([tk EXCEPT !.fault = TRUE])

\* a variant of the lookup that always misses
CacheLookupNever(cache, k) == FALSE

\* self._spoiler_cache[message_id] does not raise KeyError
CacheLookup(cache, k) == k \in CacheKeys(cache)

\* a variant that looks for the storage channel before it looks into the cache
gsc_begin_storage_first(tk, cache, up) ==
    IF ~up THEN [task |-> Return(tk, None), cache |-> cache, hit |-> FALSE]
    ELSE IF CacheLookup(cache, tk.message_id)
    THEN [task |-> Return(tk, Some(CacheValue(cache, tk.message_id))),
          cache |-> LRUTouch(cache, tk.message_id), hit |-> TRUE]
    ELSE IF tk.channel_id \notin KnownChannels
         THEN [task |-> Return(tk, None), cache |-> cache, hit |-> FALSE]
         ELSE [task |-> [tk EXCEPT !.pc = "fetch_front"], cache |-> cache, hit |-> FALSE]

\* get_spoiler_cache up to its first await: the cache, the storage channel,
\* the origin channel; then channel.fetch_message is awaited
gsc_begin(tk, cache, up) ==
    IF CacheLookup(cache, tk.message_id)
    THEN [task |-> Return(tk, Some(CacheValue(cache, tk.message_id))),
          cache |-> LRUTouch(cache, tk.message_id), hit |-> TRUE]
    ELSE IF ~up THEN [task |-> Return(tk, None), cache |-> cache, hit |-> FALSE]
    ELSE IF tk.channel_id \notin KnownChannels
         THEN [task |-> Return(tk, None), cache |-> cache, hit |-> FALSE]
         ELSE [task |-> [tk EXCEPT !.pc = "fetch_front"], cache |-> cache, hit |-> FALSE]

\* a variant that goes on to the storage channel whatever the first fetch gave
gsc_front_unguarded(tk, store, ok) ==
    [tk EXCEPT !.fetches = @ + 1, !.pc = "fetch_archive", !.storage_message_id = 2]

\* the answer to channel.fetch_message(message_id) arrives; on success the
\* footer is parsed and storage.fetch_message is awaited
gsc_front(tk, store, ok) ==
    LET t1 == [tk EXCEPT !.fetches = @ + 1]
    IN IF ~ok \/ ~CanFetch(store, tk.channel_id, tk.message_id) THEN Return(t1, None)
       ELSE LET original_message == store[tk.message_id]
            IN IF original_message.embeds = <<>> THEN Return(t1, None)
               ELSE LET p == ParseInt(original_message.embeds[1].footer_text)
                    IN IF ~p.ok THEN Return(t1, None)
                       ELSE [t1 EXCEPT !.pc = "fetch_archive",
                                       !.storage_message_id = p.val]

\* the answer to storage.fetch_message(storage_message_id) arrives; on
\* success the record is built (outside the try block: what int() or
\* embeds[0] raises there leaves the function), cached and returned
gsc_archive(tk, cache, store, ok) ==
    LET t1 == [tk EXCEPT !.fetches = @ + 1]
    IN IF ~ok \/ ~CanFetch(store, StorageChannel, tk.storage_message_id)
       THEN [task |-> Return(t1, None), cache |-> cache, put |-> FALSE]
       ELSE LET message == store[tk.storage_message_id]
            IN IF DecodeFails(message)
               THEN [task |-> Raise(t1), cache |-> cache, put |-> FALSE]
               ELSE [task |-> Return([t1 EXCEPT !.writes = @ + 1], Some(Decode(message))),
                     cache |-> LRUSet(cache, tk.message_id, Decode(message)),
                     put |-> TRUE]

-----------------------------------------------------------------------------
(* History kept beside the program's state                                 *)

NoCall == [called |-> FALSE, key |-> <<0, 0>>, at |-> 0, allowed |-> FALSE,
           first |-> FALSE, since |-> 0 - 1, soloAllowed |-> FALSE]

\* the mapping of a limiter that only ever saw the calls of key
SoloMapping(key) ==
    IF key \in DOMAIN solo THEN [k \in {_bucket_key(key)} |-> solo[key]] ELSE Empty

\* is_rate_limited(message_id, user_id) is called at time now, r is its result
LimiterHistory(message_id, user_id, r) ==
    LET key == <<message_id, user_id>>
        alone == is_rate_limited(SoloMapping(key), message_id, user_id, now)
    IN /\ lastAllow' =
            [called |-> TRUE, key |-> key, at |-> now, allowed |-> ~r.limited,
             first |-> key \notin DOMAIN solo,
             since |-> IF key \in DOMAIN consumedAt THEN now - consumedAt[key] ELSE 0 - 1,
             soloAllowed |-> ~alone.limited]
       /\ consumedAt' =
            IF r.limited THEN consumedAt
            ELSE [k \in DOMAIN consumedAt \cup {key} |->
                     IF k = key THEN now ELSE consumedAt[k]]
       /\ solo' = [k \in DOMAIN solo \cup {key} |->
                     IF k = key THEN alone.cache[_bucket_key(key)] ELSE solo[k]]

LimiterUnchanged == UNCHANGED <<cooldown, lastAllow, consumedAt, solo>>

\* the cache becomes cache2 by a hit on k
CacheHitHistory(k) ==
    /\ accessed' = RankTouch(accessed, k)
    /\ UNCHANGED <<firstRec, lastPut>>

\* the cache becomes cache2 by the insert of rec under k
CachePutHistory(cache2, k, rec) ==
    /\ accessed' = RankPut(accessed, k, CacheKeys(cache2))
    /\ lastPut' = PutRecord(accessed, k, CacheKeys(cache2))
    /\ firstRec' = [x \in CacheKeys(cache2) |->
                       IF x \in DOMAIN firstRec THEN firstRec[x] ELSE rec]

CacheUnchanged == UNCHANGED <<spoilerCache, firstRec, accessed, lastPut>>

-----------------------------------------------------------------------------
(* Events and the steps of the reveal handlers                             *)

\* get_spoiler_cache is entered by the handler in slot t
Enter(t, tk) ==
    LET k == tk.message_id
        t0 == [tk EXCEPT !.calls = @ + 1,
                         !.wasCached = k \in DOMAIN firstRec,
                         !.cachedRec = IF k \in DOMAIN firstRec THEN Some(firstRec[k])
                                       ELSE None]
        b == gsc_begin(t0, spoilerCache, storageUp)
    IN /\ Settle(t, b.task)
       /\ spoilerCache' = b.cache
       /\ IF b.hit THEN CacheHitHistory(tk.message_id)
          ELSE UNCHANGED <<firstRec, accessed, lastPut>>

NewTask(kind, m, u, e) ==
    [IdleTask EXCEPT !.kind = kind, !.channel_id = messages[m].channel,
                     !.message_id = m, !.user = u, !.emoji = e,
                     !.allows = ~is_rate_limited(cooldown, m, u, now).limited]

\* a variant in which the button path asks the cooldown as the reaction path does
ButtonLimiterAsReaction(cache, message_id, user_id, current) ==
    is_rate_limited(cache, message_id, user_id, current)

\* what reveal_spoiler does with the cooldown mapping before it calls
\* get_spoiler_cache: nothing, it makes no call of is_rate_limited
ButtonLimiter(cache, message_id, user_id, current) ==
    [cache |-> cache, limited |-> FALSE]

\* SpoilerView.reveal_spoiler: user u presses the button of post m
ButtonPress(t, m, u) ==
    /\ Free(t)
    /\ m \in DOMAIN messages /\ messages[m].exists /\ messages[m].view
    /\ LET r == ButtonLimiter(cooldown, m, u, now)
           tk == NewTask("button", m, u, "none")
       IN /\ cooldown' = r.cache
          /\ IF r.limited
             THEN /\ Settle(t, [tk EXCEPT !.pc = "done", !.limited = TRUE])
                  /\ CacheUnchanged
             ELSE Enter(t, tk)
    /\ UNCHANGED <<lastAllow, consumedAt, solo>>
    /\ UNCHANGED <<nextId, storageUp, now, pub>>

\* a variant of the check that lets bots through
BotCheckSkipped(u) == FALSE

\* `not user or user.bot`
BotCheck(u) == IsBot(u)

\* Buttons.on_raw_reaction_add: user u adds emoji e to message m
ReactionAdd(t, m, u, e) ==
    /\ Free(t)
    /\ m \in DOMAIN messages /\ messages[m].exists
    /\ UNCHANGED <<nextId, storageUp, now, pub>>
    /\ LET tk == NewTask("reaction", m, u, e)
           r == is_rate_limited(cooldown, m, u, now)
       IN IF e /= SPOILER_EMOJI_ID
          THEN /\ Settle(t, [tk EXCEPT !.pc = "done"])
               /\ LimiterUnchanged
               /\ CacheUnchanged
          ELSE /\ cooldown' = r.cache
               /\ LimiterHistory(m, u, r)
               /\ IF r.limited
                  THEN /\ Settle(t, [tk EXCEPT !.pc = "done", !.limited = TRUE])
                       /\ CacheUnchanged
                  ELSE IF ~UserCached(u)
                  THEN /\ Settle(t, [tk EXCEPT !.pc = "fetch_user"])
                       /\ CacheUnchanged
                  ELSE IF BotCheck(u)
                  THEN /\ Settle(t, [tk EXCEPT !.pc = "done"])
                       /\ CacheUnchanged
                  ELSE Enter(t, tk)

\* the answer to bot.fetch_user(payload.user_id) arrives
FetchUser(t, ok) ==
    /\ tasks[t].pc = "fetch_user"
    /\ LimiterUnchanged
    /\ UNCHANGED <<nextId, storageUp, now, pub>>
    /\ IF ~ok \/ BotCheck(tasks[t].user)
       THEN /\ Settle(t, [tasks[t] EXCEPT !.pc = "done"])
            /\ CacheUnchanged
       ELSE Enter(t, tasks[t])

\* the answer to channel.fetch_message(message_id) arrives
FetchFront(t, ok) ==
    /\ tasks[t].pc = "fetch_front"
    /\ Settle(t, gsc_front(tasks[t], messages, ok))
    /\ LimiterUnchanged
    /\ CacheUnchanged
    /\ UNCHANGED <<nextId, storageUp, now, pub>>

\* the answer to storage.fetch_message(storage_message_id) arrives
FetchArchive(t, ok) ==
    /\ tasks[t].pc = "fetch_archive"
    /\ LET a == gsc_archive(tasks[t], spoilerCache, messages, ok)
       IN /\ Settle(t, a.task)
          /\ spoilerCache' = a.cache
          /\ IF a.put
             THEN CachePutHistory(a.cache, tasks[t].message_id,
                                  Get(a.task.result))
             ELSE UNCHANGED <<firstRec, accessed, lastPut>>
    /\ LimiterUnchanged
    /\ UNCHANGED <<nextId, storageUp, now, pub>>

-----------------------------------------------------------------------------
(* The environment                                                         *)

\* a message is deleted from its channel
DeleteMessage(m) ==
    /\ m \in DOMAIN messages /\ messages[m].exists
    /\ messages' = [messages EXCEPT ![m] = NoMsg]
    /\ LimiterUnchanged
    /\ CacheUnchanged
    /\ UNCHANGED <<nextId, storageUp, now, tasks, lastDone, pub>>

\* a moderator takes the embeds off a message (the one edit another party
\* can make to a message of the bot)
SuppressEmbeds(m) ==
    /\ m \in DOMAIN messages /\ messages[m].exists /\ messages[m].embeds /= <<>>
    /\ messages' = [messages EXCEPT ![m].embeds = <<>>]
    /\ LimiterUnchanged
    /\ CacheUnchanged
    /\ UNCHANGED <<nextId, storageUp, now, tasks, lastDone, pub>>

\* the storage guild or channel leaves or enters the bot's cache
StorageFlip ==
    /\ storageUp' = ~storageUp
    /\ LimiterUnchanged
    /\ CacheUnchanged
    /\ UNCHANGED <<messages, nextId, now, tasks, lastDone, pub>>

\* d seconds pass
Tick(d) ==
    /\ now + d <= MaxTime
    /\ now' = now + d
    /\ LimiterUnchanged
    /\ CacheUnchanged
    /\ UNCHANGED <<messages, nextId, storageUp, tasks, lastDone, pub>>

-----------------------------------------------------------------------------
(* The spoiler command: Buttons.spoiler and Buttons.redirect_post          *)

MaxTitle == 100
max_mib == 25 * 1024 * 1024

supported_attachments ==
    << <<".", "p", "n", "g">>, <<".", "j", "p", "g">>, <<".", "j", "p", "e", "g">>,
       <<".", "w", "e", "b", "m">>, <<".", "g", "i", "f">>, <<".", "m", "p", "4">>,
       <<".", "t", "x", "t">> >>

\* a variant of the check that accepts every filename
SupportedAlways(candidates) == TRUE

\* all(attach.filename.lower().endswith(supported_attachments) for attach in ...)
AllSupported(candidates) ==
    \A i \in 1..Len(candidates) :
        EndsWithAny(Lower(candidates[i].filename), supported_attachments)

IdlePub ==
    [pc |-> "idle", author |-> 0, channel |-> 0, title |-> <<>>, text |-> None,
     candidates |-> <<>>, i |-> 0, files |-> <<>>, picked |-> <<>>, total_bytes |-> 0,
     gets |-> 0, original_deleted |-> FALSE, archive_written |-> FALSE,
     storage_message_id |-> 0, spoiler_message_id |-> 0, record |-> None,
     outcome |-> "none", error |-> "none", cache_before |-> <<>>, store_before |-> <<>>,
     trace |-> <<>>, count |-> 0]

PubFree == pub.pc \in {"idle", "done"}

\* redirect_post raises, spoiler catches it and sends str(e)
PubFail(p, why) == [p EXCEPT !.pc = "done", !.outcome = "failed", !.error = why]

\* a variant of the title check that turns away a title of exactly 100 characters
TitleTooLongFrom100(title) == Len(title) >= MaxTitle

\* `len(title) > 100`
TitleTooLong(title) == Len(title) > MaxTitle

\* the command arrives: the title check, then redirect_post up to its first
\* await (the first session.get, or the sleep before the delete)
spoiler_begin(p, up) ==
    IF TitleTooLong(p.title)
    THEN [p EXCEPT !.pc = "done", !.outcome = "rejected", !.error = "title"]
    ELSE IF ~up THEN PubFail(p, "storage_not_found")
    ELSE IF ~AllSupported(p.candidates)
         THEN PubFail([p EXCEPT !.trace = <<"validate">>], "unsupported_file")
    ELSE IF p.candidates = <<>> THEN [p EXCEPT !.pc = "delete", !.trace = <<"validate">>]
    ELSE [p EXCEPT !.pc = "fetch", !.i = 1, !.trace = <<"validate">>]

\* a variant of the comparison that turns away a file that fills the cap exactly
FitsBelow(total_bytes, content_length) == total_bytes + content_length < max_mib

\* `(total_bytes + content_length) > max_mib` is false
Fits(total_bytes, content_length) == ~((total_bytes + content_length) > max_mib)

\* a variant of the loop that ends after its first attachment
NextAttachmentLeaves(p, break) == [p EXCEPT !.pc = "delete"]

\* the loop moves on from attachment i; p.total_bytes is already updated
NextAttachment(p, break) ==
    IF break \/ p.i >= Len(p.candidates)
    THEN [p EXCEPT !.pc = "delete"]
    ELSE [p EXCEPT !.i = @ + 1]

\* the answer to session.get(attach.url) arrives for attachment i: an
\* exception of the transport (ok is false) leaves redirect_post; a status
\* other than 200 and a file that does not fit are skipped
redirect_fetch(p, ok) ==
    LET attach == p.candidates[p.i]
        p1 == [p EXCEPT !.gets = @ + 1, !.trace = Append(@, "fetch")]
    IN IF ~ok THEN PubFail(p1, "fetch_raised")
       ELSE IF attach.status /= 200 THEN NextAttachment(p1, FALSE)
       ELSE IF ~Fits(p1.total_bytes, attach.size) THEN NextAttachment(p1, FALSE)
       ELSE LET p2 == [p1 EXCEPT !.total_bytes = @ + attach.size,
                                 !.files = Append(@, [filename |-> attach.filename,
                                                      size |-> attach.size]),
                                 !.picked = Append(@, p.i)]
            IN NextAttachment(p2, p2.total_bytes >= max_mib)

\* the answer to ctx.message.delete() arrives; then the embed is built and
\* storage.send is awaited
redirect_delete(p, ok) ==
    IF ~ok THEN PubFail(p, "delete_raised")
    ELSE [p EXCEPT !.pc = "write", !.original_deleted = TRUE,
                   !.trace = Append(@, "delete")]

\* a variant that goes on to the front-door post when storage.send failed
redirect_write_goes_on(p, ok, id) ==
    [p EXCEPT !.pc = "post", !.archive_written = ok,
              !.storage_message_id = id,
              !.trace = Append(@, "write"),
              !.record = Some(PublishedRecord(p.author, p.channel, p.title,
                                              p.text, p.files))]

\* the answer to storage.send(embed=data, files=files) arrives; id is the new
\* message's; then spoiler awaits ctx.send of the front-door post
redirect_write(p, ok, id) ==
    IF ~ok THEN PubFail(p, "could_not_store")
    ELSE [p EXCEPT !.pc = "post", !.archive_written = TRUE,
                   !.storage_message_id = id,
                   !.trace = Append(@, "write"),
                   !.record = Some(PublishedRecord(p.author, p.channel, p.title,
                                                   p.text, p.files))]

\* a user sends the command with these arguments and attachments
SpoilerCommand(author, channel, title, text, candidates) ==
    /\ PubFree
    /\ pub.count < MaxPublishes
    /\ pub' = spoiler_begin([IdlePub EXCEPT !.author = author, !.channel = channel,
                                            !.count = pub.count + 1,
                                            !.title = title, !.text = text,
                                            !.candidates = candidates,
                                            !.cache_before = spoilerCache,
                                            !.store_before = messages],
                            storageUp)
    /\ LimiterUnchanged
    /\ CacheUnchanged
    /\ UNCHANGED <<messages, nextId, storageUp, now, tasks, lastDone>>

AttachmentFetched(ok) ==
    /\ pub.pc = "fetch"
    /\ pub' = redirect_fetch(pub, ok)
    /\ LimiterUnchanged
    /\ CacheUnchanged
    /\ UNCHANGED <<messages, nextId, storageUp, now, tasks, lastDone>>

OriginalDeleted(ok) ==
    /\ pub.pc = "delete"
    /\ pub' = redirect_delete(pub, ok)
    /\ LimiterUnchanged
    /\ CacheUnchanged
    /\ UNCHANGED <<messages, nextId, storageUp, now, tasks, lastDone>>

ArchiveWritten(ok) ==
    /\ pub.pc = "write"
    /\ pub' = redirect_write(pub, ok, nextId)
    /\ IF ok
       THEN /\ messages' = [m \in DOMAIN messages \cup {nextId} |->
                              IF m = nextId
                              THEN Msg(StorageChannel,
                                       <<ArchiveEmbed(pub.author, pub.channel,
                                                      pub.title, pub.text)>>,
                                       pub.files, FALSE)
                              ELSE messages[m]]
            /\ nextId' = nextId + 1
       ELSE UNCHANGED <<messages, nextId>>
    /\ LimiterUnchanged
    /\ CacheUnchanged
    /\ UNCHANGED <<storageUp, now, tasks, lastDone>>

\* the answer to ctx.send(embed=cache.to_spoiler_embed(...), view=...) arrives;
\* the record is cached under the new post's id
FrontDoorPosted(ok) ==
    /\ pub.pc = "post"
    /\ IF ok
       THEN LET rec == Get(pub.record)
                cache2 == LRUSet(spoilerCache, nextId, rec)
            IN /\ messages' = [m \in DOMAIN messages \cup {nextId} |->
                                 IF m = nextId
                                 THEN Msg(pub.channel,
                                          <<to_spoiler_embed(rec, pub.author,
                                                             pub.storage_message_id)>>,
                                          <<>>, TRUE)
                                 ELSE messages[m]]
               /\ nextId' = nextId + 1
               /\ spoilerCache' = cache2
               /\ CachePutHistory(cache2, nextId, rec)
               /\ pub' = [pub EXCEPT !.pc = "done", !.outcome = "ok",
                                     !.spoiler_message_id = nextId]
       ELSE /\ pub' = [pub EXCEPT !.pc = "done", !.outcome = "error"]
            /\ CacheUnchanged
            /\ UNCHANGED <<messages, nextId>>
    /\ LimiterUnchanged
    /\ UNCHANGED <<storageUp, now, tasks, lastDone>>

\* the process restarts: the cache, the cooldowns and the handlers are gone
Restart ==
    /\ spoilerCache' = <<>>
    /\ cooldown' = Empty
    /\ tasks' = [t \in DOMAIN tasks |-> IdleTask]
    /\ lastDone' = IdleTask
    /\ pub' = IF PubFree THEN pub ELSE [pub EXCEPT !.pc = "done", !.outcome = "killed"]
    /\ lastAllow' = NoCall
    /\ consumedAt' = Empty
    /\ solo' = Empty
    /\ firstRec' = Empty
    /\ accessed' = Empty
    /\ lastPut' = NoPut
    /\ UNCHANGED <<messages, nextId, storageUp, now>>

-----------------------------------------------------------------------------
(* The whole cog, driven by the command framework and the gateway          *)

Slots == 1..MaxTasks
OkOrNot == {TRUE, FALSE}

InitWith(store) ==
    /\ messages = store
    /\ nextId = Len(store) + 1
    /\ storageUp = TRUE
    /\ spoilerCache = <<>>
    /\ cooldown = Empty
    /\ now = StartTime
    /\ tasks = [t \in Slots |-> IdleTask]
    /\ lastDone = IdleTask
    /\ pub = IdlePub
    /\ lastAllow = NoCall
    /\ consumedAt = Empty
    /\ solo = Empty
    /\ firstRec = Empty
    /\ accessed = Empty
    /\ lastPut = NoPut

Init == \E m3 \in ForeignFront, m4 \in ForeignArchive : InitWith(Preloaded(m3, m4))

\* reveals by user 7, by the button of a post and by a marker reaction to
\* message 3, over a store in which the old post may be deleted
Next ==
    \/ \E t \in Slots, m \in DOMAIN messages : ButtonPress(t, m, 7)
    \/ \E t \in Slots : ReactionAdd(t, 3, 7, SPOILER_EMOJI_ID)
    \/ \E t \in Slots, ok \in OkOrNot : FetchFront(t, ok)
    \/ \E t \in Slots, ok \in OkOrNot : FetchArchive(t, ok)
    \/ \E m \in {1, 2} : DeleteMessage(m)
    \/ StorageFlip

Spec == Init /\ [][Next]_vars

\* C1: get_spoiler_cache never lets a fault escape to its caller: whatever the
\* store holds, every call that ended returned a record or None
C1_NoFaultEscapes == ~lastDone.fault

\* C3: a call for an uncached front-door id that returned a record made
\* exactly two fetches (the front-door message, then the storage message) and
\* one cache write; a call for an id that is cached makes no fetch and returns
\* the record that was first cached under that id
C3_CacheCorrectness ==
    lastDone.calls = 1 =>
        /\ (~lastDone.wasCached /\ IsSome(lastDone.result)) =>
               (lastDone.fetches = 2 /\ lastDone.writes = 1
                /\ lastDone.storage_message_id /= 0)
        /\ lastDone.wasCached =>
               (lastDone.fetches = 0 /\ lastDone.writes = 0
                /\ lastDone.result = lastDone.cachedRec)

\* a button press on the old post was answered from the cache, which an
\* earlier call had filled
C3_Witness ==
    /\ lastDone.calls = 1 /\ lastDone.kind = "button" /\ lastDone.message_id = 1
    /\ lastDone.wasCached /\ lastDone.fetches = 0
    /\ lastDone.result = Some(OldRecord)
    /\ lastDone.out = "ephemeral_embed"

\* a step of a reveal handler: an event arrives or an awaited call answers
RevealStep == tasks' /= tasks \/ lastDone' /= lastDone \/ cooldown' /= cooldown

\* C13: a reveal, by button or by reaction, hit or miss or rate limited,
\* leaves every message of the origin channels and of the storage channel as
\* it is and sends none; what it does is one private answer (an ephemeral
\* response or a direct message), at most one cache insert and the cooldown
C13_PostStaysHidden ==
    /\ [][RevealStep => (messages' = messages /\ nextId' = nextId)]_vars
    /\ [](/\ messages[1] \in {OldFrontDoor, NoMsg}
          /\ messages[2] \in {OldArchive, NoMsg}
          /\ Len(messages) = 4
          /\ lastDone.writes <= 1
          /\ lastDone.out \in {"none", "dm", "ephemeral_embed", "ephemeral_not_found"})

\* the old post was revealed by its button from the store and is as it was
C13_Witness ==
    /\ lastDone.kind = "button" /\ lastDone.message_id = 1
    /\ lastDone.out = "ephemeral_embed" /\ lastDone.writes = 1
    /\ messages[1] = OldFrontDoor /\ messages[2] = OldArchive

\* the calls of get_spoiler_cache: those in flight and the last that ended
Calls == {tasks[t] : t \in {x \in DOMAIN tasks : tasks[x].calls = 1}}
           \cup (IF lastDone.calls = 1 THEN {lastDone} ELSE {})

\* the front-door message a call asked for, as it was fetched (message 1 may
\* have been deleted since)
FrontAsFetched(m) == IF m = 1 THEN OldFrontDoor ELSE messages[m]

\* C14: a call of get_spoiler_cache makes at most two fetches and at most one
\* cache write; it asks the storage channel only after the front-door fetch
\* gave a message whose footer is an integer, and for that id; a call that
\* returns None writes nothing and leaves the cache as it is
C14_ReconstructBudget ==
    /\ [](\A c \in Calls :
            /\ c.fetches <= 2 /\ c.writes <= 1
            /\ (c.pc = "fetch_archive" \/ c.fetches = 2) =>
                  LET front == FrontAsFetched(c.message_id)
                  IN /\ front.exists /\ front.channel = c.channel_id
                     /\ front.embeds /= <<>>
                     /\ ParseInt(front.embeds[1].footer_text).ok
                     /\ ParseInt(front.embeds[1].footer_text).val = c.storage_message_id
            /\ c.pc = "fetch_archive" => c.fetches = 1
            /\ (c.pc = "done" /\ c.result = None) => c.writes = 0)
    /\ [][(lastDone' /= lastDone /\ lastDone'.calls = 1 /\ lastDone'.result = None)
            => spoilerCache' = spoilerCache]_vars

\* a call for message 3, whose footer is no integer, returned None after one
\* fetch while the old post stayed cached
C14_Witness ==
    /\ lastDone.calls = 1 /\ lastDone.message_id = 3
    /\ messages[3].embeds /= <<>>
    /\ ~ParseInt(messages[3].embeds[1].footer_text).ok
    /\ IsSome(messages[3].embeds[1].footer_text)
    /\ lastDone.fetches = 1 /\ lastDone.writes = 0 /\ lastDone.result = None
    /\ CacheKeys(spoilerCache) = {1}

\* a step in which a button press arrives: a free slot is taken by a button
\* handler, or a button handler ran to its end without suspending
ButtonArrives ==
    \/ \E t \in DOMAIN tasks : tasks[t].pc = "idle" /\ tasks'[t].kind = "button"
    \/ tasks' = tasks /\ lastDone' /= lastDone /\ lastDone'.kind = "button"

\* C11: the button path is not rate limited: the step of a button press
\* leaves the cooldown mapping as it is, and every button handler calls
\* get_spoiler_cache, whatever the cooldown of the (post, presser) pair
C11_ButtonNotLimited ==
    /\ [][ButtonArrives => cooldown' = cooldown]_vars
    /\ [](/\ \A t \in DOMAIN tasks : tasks[t].kind = "button" => tasks[t].calls = 1
          /\ lastDone.kind = "button" => (lastDone.calls = 1 /\ ~lastDone.limited))

\* user 7, whose marker reaction to message 3 had used the pair's token, then
\* pressed the button of message 3 and got the record
C11_Witness ==
    /\ lastDone.kind = "button" /\ lastDone.message_id = 3 /\ lastDone.user = 7
    /\ <<3, 7>> \in DOMAIN cooldown
    /\ ~lastDone.allows
    /\ lastDone.calls = 1 /\ lastDone.out = "ephemeral_embed"

-----------------------------------------------------------------------------
(* The cooldown alone: marker and other reactions by cached users on two   *)
(* messages of a channel the bot has not cached (get_spoiler_cache returns *)
(* at once there), and the clock                                           *)

DirectMessages ==
    << Msg(6, <<>>, <<>>, FALSE), Msg(6, <<>>, <<>>, FALSE) >>

InitLimiter == InitWith(DirectMessages)

NextLimiter ==
    \/ \E t \in Slots, m \in DOMAIN messages, u \in {7, 9} :
          ReactionAdd(t, m, u, SPOILER_EMOJI_ID)
    \/ Tick(TickStep)

SpecLimiter == InitLimiter /\ [][NextLimiter]_vars

\* C6 as stated: for a fixed (post, actor) pair the first allow call returns
\* true, a second call at the same instant returns false, and a call made 10
\* seconds or more after the call that consumed the token returns true
C6_AsStated ==
    lastAllow.called =>
        /\ (lastAllow.first => lastAllow.allowed)
        /\ (lastAllow.since = 0 => ~lastAllow.allowed)
        /\ (lastAllow.since >= 10 => lastAllow.allowed)

\* C6 as amended: the first allow call of a pair returns true, a later call
\* at most 10 seconds after the call that consumed the token returns false,
\* and a call more than 10 seconds after it returns true
C6_RateLimiterTimeline ==
    lastAllow.called =>
        /\ (lastAllow.first => lastAllow.allowed)
        /\ (lastAllow.since >= 0 /\ lastAllow.since <= 10 => ~lastAllow.allowed)
        /\ (lastAllow.since > 10 => lastAllow.allowed)

\* a pair is let through again, more than 10 seconds after it consumed its token
C6_Witness ==
    /\ lastAllow.called /\ lastAllow.since > 10 /\ lastAllow.allowed
    /\ lastDone.kind = "reaction" /\ ~lastDone.limited

\* C7: the result of allow(post, actor) is the result a limiter gives that
\* only ever saw the calls of that (post, actor) pair, at the same times
C7_LimiterIndependence ==
    lastAllow.called => lastAllow.allowed = lastAllow.soloAllowed

\* a pair is let through while another actor's bucket on the same post and the
\* same actor's bucket on another post are both spent
C7_Witness ==
    /\ lastAllow.called /\ lastAllow.allowed
    /\ LET m == lastAllow.key[1]
           u == lastAllow.key[2]
       IN /\ \E k \in DOMAIN cooldown : k[1] = m /\ k[2] /= u /\ cooldown[k].window = now
          /\ \E k \in DOMAIN cooldown : k[1] /= m /\ k[2] = u /\ cooldown[k].window = now

-----------------------------------------------------------------------------
(* The publish pipeline alone, over lists of attachments                   *)

Candidate(filename, size, status) ==
    [filename |-> filename, size |-> size, status |-> status]

ClipMp4 == <<"C", "L", "I", "P", ".", "M", "P", "4">>
EvilExe == <<"e", "v", "i", "l", ".", "e", "x", "e">>
PngNoDot == <<"p", "n", "g">>

CandidateSet ==
    {Candidate(ImgPng.filename, n * MiB, 200) : n \in {0, 10, 15, 25, 30}}
    \cup {Candidate(ImgPng.filename, 10 * MiB, 404)}
    \cup {Candidate(f, 10 * MiB, 200) : f \in {ClipMp4, EvilExe, PngNoDot}}

CandidateLists ==
    UNION {[1..n -> CandidateSet] : n \in 0..MaxAttachments}

InitPipeline == InitWith(<<>>)

NextPipeline ==
    \/ \E candidates \in CandidateLists : SpoilerCommand(7, 5, Cat, None, candidates)
    \/ \E ok \in OkOrNot : AttachmentFetched(ok)
    \/ \E ok \in OkOrNot : OriginalDeleted(ok)
    \/ \E ok \in OkOrNot : ArchiveWritten(ok)
    \/ \E ok \in OkOrNot : FrontDoorPosted(ok)
    \/ StorageFlip

SpecPipeline == InitPipeline /\ [][NextPipeline]_vars

\* C2 as stated: a publish whose archive write failed has failed and has not
\* deleted the original message (the original message is deleted only after
\* the archive write has been confirmed)
C2_DeleteOnlyAfterArchive ==
    (pub.pc = "done" /\ pub.error = "could_not_store") =>
        (pub.outcome = "failed" /\ ~pub.original_deleted)

\* the part of a file name after its last dot, in lower case
RECURSIVE Extension(_)
Extension(f) ==
    IF f = <<>> \/ f[Len(f)] = "." THEN <<>>
    ELSE IF \E i \in 1..Len(f) : f[i] = "."
         THEN Extension(SubSeq(f, 1, Len(f) - 1)) \o <<LowerChar(f[Len(f)])>>
         ELSE <<>>

AllowedExtensions ==
    { <<"p", "n", "g">>, <<"j", "p", "g">>, <<"j", "p", "e", "g">>,
      <<"w", "e", "b", "m">>, <<"g", "i", "f">>, <<"m", "p", "4">>, <<"t", "x", "t">> }

HasForbiddenExtension(candidates) ==
    \E i \in 1..Len(candidates) :
        Extension(candidates[i].filename) \notin AllowedExtensions

\* C4: a command with a candidate attachment whose extension is outside
\* {png, jpg, jpeg, webm, gif, mp4, txt} (case-insensitively) has failed, has
\* fetched no attachment, has not deleted the original message, has written
\* nothing to the store and has left the cache as it was
C4_TypePolicy ==
    (pub.count > 0 /\ HasForbiddenExtension(pub.candidates)) =>
        /\ pub.pc = "done" /\ pub.outcome = "failed"
        /\ pub.error \in {"unsupported_file", "storage_not_found"}
        /\ pub.gets = 0
        /\ ~pub.original_deleted
        /\ ~pub.archive_written
        /\ messages = pub.store_before /\ nextId = Len(messages) + 1
        /\ spoilerCache = pub.cache_before

\* a command failed on evil.exe though its first attachment was a supported one
C4_Witness ==
    /\ pub.pc = "done" /\ pub.outcome = "failed" /\ pub.error = "unsupported_file"
    /\ Len(pub.candidates) >= 2
    /\ pub.candidates[1].filename = ImgPng.filename
    /\ pub.candidates[2].filename = EvilExe

\* the greedy in-order scan of the claim: from attachment i on, with the
\* running total, the indices archived; an attachment whose fetch did not
\* answer 200 has no size and is passed over
RECURSIVE GreedyScan(_, _, _)
GreedyScan(candidates, i, total) ==
    IF i > Len(candidates) \/ total >= 25 * MiB THEN <<>>
    ELSE IF candidates[i].status = 200 /\ total + candidates[i].size <= 25 * MiB
         THEN <<i>> \o GreedyScan(candidates, i + 1, total + candidates[i].size)
         ELSE GreedyScan(candidates, i + 1, total)

RECURSIVE SumSizes(_)
SumSizes(files) == IF files = <<>> THEN 0 ELSE files[1].size + SumSizes(Tail(files))

LoopOver == pub.pc \in {"delete", "write", "post"} \/ pub.archive_written

\* C5: once the loop over the attachments has ended, the files to archive
\* are those of the greedy in-order scan with a 25 MiB cap, in the given
\* order, their total is at most 25 MiB, and the storage message written
\* carries exactly them; sizes [10,10,10] MiB give the first two, [30] none
C5_SizeBudget ==
    LoopOver =>
        LET chosen == GreedyScan(pub.candidates, 1, 0)
        IN /\ pub.picked = chosen
           /\ pub.files = [k \in 1..Len(chosen) |->
                              [filename |-> pub.candidates[chosen[k]].filename,
                               size |-> pub.candidates[chosen[k]].size]]
           /\ SumSizes(pub.files) <= 25 * MiB
           /\ pub.total_bytes = SumSizes(pub.files)
           /\ \A k \in 1..(Len(pub.picked) - 1) : pub.picked[k] < pub.picked[k + 1]
           /\ pub.archive_written =>
                 messages[pub.storage_message_id].attachments = pub.files
           /\ ([k \in 1..Len(pub.candidates) |-> pub.candidates[k].size]
                 = <<10 * MiB, 10 * MiB, 10 * MiB>>
               /\ \A k \in 1..3 : pub.candidates[k].status = 200)
                 => pub.picked = <<1, 2>>
           /\ (Len(pub.candidates) = 1 /\ pub.candidates[1].size = 30 * MiB)
                 => pub.picked = <<>>

\* an archive written from sizes [30, 10, 15] MiB: the first is skipped, the
\* other two fill the budget exactly
C5_Witness ==
    /\ pub.archive_written
    /\ [k \in 1..Len(pub.candidates) |-> pub.candidates[k].size]
         = <<30 * MiB, 10 * MiB, 15 * MiB>>
    /\ pub.picked = <<2, 3>>
    /\ Len(messages[pub.storage_message_id].attachments) = 2

\* the place of a step in the order of redirect_post
StepRank(step) ==
    CASE step = "validate" -> 1 [] step = "fetch" -> 2
      [] step = "delete" -> 3 [] step = "write" -> 4

Steps(name) == {i \in 1..Len(pub.trace) : pub.trace[i] = name}

\* the number of attachments the loop comes to when no fetch raises: all of
\* them, or those up to the one that fills the 25 MiB
RECURSIVE ScanVisits(_, _, _)
ScanVisits(candidates, i, total) ==
    IF i > Len(candidates) \/ total >= 25 * MiB THEN 0
    ELSE 1 + ScanVisits(candidates, i + 1,
                        IF candidates[i].status = 200
                           /\ total + candidates[i].size <= 25 * MiB
                        THEN total + candidates[i].size ELSE total)

\* C15: the steps of redirect_post come in the order validate, fetches,
\* delete, write: the type check is first and alone, no fetch follows the
\* delete, the delete comes once every fetch of the loop has been made, and
\* the storage message is written only after the delete
C15_StepOrder ==
    /\ pub.trace /= <<>> => pub.trace[1] = "validate"
    /\ Cardinality(Steps("validate")) <= 1
    /\ Cardinality(Steps("delete")) <= 1
    /\ Cardinality(Steps("write")) <= 1
    /\ \A i, j \in 1..Len(pub.trace) :
          i < j => StepRank(pub.trace[i]) <= StepRank(pub.trace[j])
    /\ Cardinality(Steps("fetch")) = pub.gets
    /\ pub.original_deleted <=> Steps("delete") /= {}
    /\ pub.archive_written <=> Steps("write") /= {}
    /\ Steps("write") /= {} => Steps("delete") /= {}
    /\ Steps("delete") /= {} => pub.gets = ScanVisits(pub.candidates, 1, 0)

\* a publish of two attachments went through all its steps
C15_Witness ==
    /\ pub.trace = <<"validate", "fetch", "fetch", "delete", "write">>
    /\ pub.original_deleted /\ pub.archive_written

\* the fetch of a candidate attachment failed: session.get raised, or one of
\* the responses received had a status other than 200
FetchRaised == pub.error = "fetch_raised"
FetchFailed == FetchRaised \/ \E i \in 1..pub.gets : pub.candidates[i].status /= 200

\* C16 as stated: when the fetch of an attachment failed, the original
\* message is not deleted, no storage message is written and the publish
\* ends as a failure
C16_FetchFailureAborts ==
    FetchFailed =>
        /\ ~pub.original_deleted /\ ~pub.archive_written
        /\ pub.pc = "done" => pub.outcome = "failed"

\* the part of it that holds: an exception of session.get ends the publish
\* as a failure before the delete and the write
FetchRaisedAborts ==
    FetchRaised =>
        /\ pub.pc = "done" /\ pub.outcome = "failed"
        /\ ~pub.original_deleted /\ ~pub.archive_written
        /\ messages = pub.store_before

-----------------------------------------------------------------------------
(* The cache at its capacity: LRU_SIZE + 1 posts published before the      *)
(* process started, all but the last revealed since, post 1 first; the     *)
(* messages of the posts that are not revealed again have been deleted     *)

\* post k: front-door message 2k - 1 in channel 5, storage message 2k
FrontId(k) == 2 * k - 1
\* the posts revealed: the two least recently used, and the one not cached
Pressed == {FrontId(1), FrontId(2), FrontId(LRU_SIZE + 1)}

PostStore ==
    [m \in Pressed \cup {f + 1 : f \in Pressed} |->
        IF m % 2 = 1
        THEN Msg(5, <<to_spoiler_embed(OldRecord, 7, m + 1)>>, <<>>, TRUE)
        ELSE OldArchive]

Warm == LRU_SIZE

InitLRU ==
    /\ messages = PostStore
    /\ nextId = 2 * (LRU_SIZE + 1) + 1
    /\ storageUp = TRUE
    /\ spoilerCache = [i \in 1..Warm |->
                         [key |-> FrontId(Warm + 1 - i), value |-> OldRecord]]
    /\ cooldown = Empty
    /\ now = StartTime
    /\ tasks = [t \in {1} |-> IdleTask]
    /\ lastDone = IdleTask
    /\ pub = IdlePub
    /\ lastAllow = NoCall
    /\ consumedAt = Empty
    /\ solo = Empty
    /\ firstRec = [m \in {FrontId(k) : k \in 1..Warm} |-> OldRecord]
    /\ accessed = [m \in {FrontId(k) : k \in 1..Warm} |-> (m + 1) \div 2]
    /\ lastPut = NoPut

NextLRU ==
    \/ \E m \in Pressed : ButtonPress(1, m, 7)
    \/ \E ok \in OkOrNot : FetchFront(1, ok)
    \/ \E ok \in OkOrNot : FetchArchive(1, ok)
    \/ SpoilerCommand(7, 5, Cat, None, <<>>)
    \/ OriginalDeleted(TRUE)
    \/ ArchiveWritten(TRUE)
    \/ FrontDoorPosted(TRUE)

SpecLRU == InitLRU /\ [][NextLRU]_vars

\* C8: the cache holds at most 128 entries, one per key; the insert of a new
\* key into a cache of 128 evicts exactly one entry, the least recently
\* accessed one, and no other insert evicts anything; the cache keeps its
\* entries in the order of their last access, a hit counting as an access
C8_LruBoundAndEviction ==
    /\ Len(spoilerCache) <= 128
    /\ Cardinality(CacheKeys(spoilerCache)) = Len(spoilerCache)
    /\ (lastPut.was_new /\ lastPut.size_before = 128) =>
          (lastPut.gone = lastPut.oldest /\ Cardinality(lastPut.gone) = 1)
    /\ (~lastPut.was_new \/ lastPut.size_before < 128) => lastPut.gone = {}
    /\ DOMAIN accessed = CacheKeys(spoilerCache)
    /\ \A i \in 1..Len(spoilerCache) :
          accessed[spoilerCache[i].key] = Len(spoilerCache) + 1 - i

\* post 1 was the least recently used and was revealed from the cache; the
\* insert into the full cache then evicted post 2 and kept post 1
C8_Witness ==
    /\ lastPut.was_new /\ lastPut.size_before = 128
    /\ lastPut.gone = {FrontId(2)}
    /\ FrontId(1) \in CacheKeys(spoilerCache)
    /\ Len(spoilerCache) = 128

-----------------------------------------------------------------------------
(* The reaction path: reactions of every user with either emoji to the old *)
(* post and to a message that is no post, and the storage channel leaving  *)
(* and entering the cache                                                  *)

InitReaction ==
    InitWith(Preloaded(Msg(5, <<>>, <<>>, FALSE), Msg(StorageChannel, <<>>, <<>>, FALSE)))

NextReaction ==
    \/ \E m \in {1, 3}, u \in Users, e \in Emojis : ReactionAdd(1, m, u, e)
    \/ \E ok \in OkOrNot : FetchUser(1, ok)
    \/ \E ok \in OkOrNot : FetchFront(1, ok)
    \/ \E ok \in OkOrNot : FetchArchive(1, ok)
    \/ StorageFlip

SpecReaction == InitReaction /\ [][NextReaction]_vars

-----------------------------------------------------------------------------
(* Publish, restart, reveal: redirect_post is run with a text that is      *)
(* absent, empty or not empty (the command's parser never hands over the   *)
(* empty one), the process restarts, and the new post's button is pressed  *)

PublishTexts == {None, Some(<<>>), Some(Boo)}
PublishAttachments ==
    {<<>>, <<[filename |-> ImgPng.filename, size |-> ImgPng.size, status |-> 200]>>}

InitRoundTrip == InitWith(<<>>)

NextRoundTrip ==
    \/ \E text \in PublishTexts, candidates \in PublishAttachments :
          SpoilerCommand(7, 5, Cat, text, candidates)
    \/ AttachmentFetched(TRUE)
    \/ OriginalDeleted(TRUE)
    \/ ArchiveWritten(TRUE)
    \/ FrontDoorPosted(TRUE)
    \/ Restart
    \/ \E m \in DOMAIN messages : ButtonPress(1, m, 7)
    \/ \E ok \in OkOrNot : FetchFront(1, ok)
    \/ \E ok \in OkOrNot : FetchArchive(1, ok)

SpecRoundTrip == InitRoundTrip /\ [][NextRoundTrip]_vars

-----------------------------------------------------------------------------
(* The command with titles around the limit: 3, 100 and 101 characters,    *)
(* with and without a text and an attachment, every remote call            *)
(* succeeding or failing, the storage channel in the cache or not          *)

TitleOf(n) == [i \in 1..n |-> "t"]
CommandTitles == {Cat, TitleOf(100), TitleOf(101)}
CommandTexts == {None, Some(Boo)}

InitCommand == InitWith(<<>>)

NextCommand ==
    \/ \E title \in CommandTitles, text \in CommandTexts, candidates \in PublishAttachments :
          SpoilerCommand(7, 5, title, text, candidates)
    \/ \E ok \in OkOrNot : AttachmentFetched(ok)
    \/ \E ok \in OkOrNot : OriginalDeleted(ok)
    \/ \E ok \in OkOrNot : ArchiveWritten(ok)
    \/ \E ok \in OkOrNot : FrontDoorPosted(ok)
    \/ StorageFlip

SpecCommand == InitCommand /\ [][NextCommand]_vars

Title100Accepted ==
    /\ pub.pc = "done" /\ pub.outcome = "ok" /\ Len(pub.title) = 100
    /\ Len(messages) = 2

-----------------------------------------------------------------------------
(* A cached post whose store goes away: the old post is revealed by button *)
(* and by a reaction of user 8 (whom the bot fetches first), while its two *)
(* messages are deleted or lose their embeds and the storage channel       *)
(* leaves and enters the cache                                             *)

InitStale == InitWith(<<OldFrontDoor, OldArchive>>)

NextStale ==
    \/ \E t \in Slots : ButtonPress(t, 1, 7)
    \/ \E t \in Slots : ReactionAdd(t, 1, 8, SPOILER_EMOJI_ID)
    \/ \E t \in Slots, ok \in OkOrNot : FetchUser(t, ok)
    \/ \E t \in Slots, ok \in OkOrNot : FetchFront(t, ok)
    \/ \E t \in Slots, ok \in OkOrNot : FetchArchive(t, ok)
    \/ \E m \in DOMAIN messages : DeleteMessage(m)
    \/ \E m \in DOMAIN messages : SuppressEmbeds(m)
    \/ StorageFlip

SpecStale == InitStale /\ [][NextStale]_vars

\* C17: an entry leaves the cache only when the insert of a new key finds the
\* cache full; while a front-door id is cached its record stays the same,
\* and a call of get_spoiler_cache for it returns that record at once, with
\* no fetch, whatever has become of the two messages and of the storage
\* channel
C17_OnlyEviction ==
    /\ [][\A k \in CacheKeys(spoilerCache) :
            \/ k \in CacheKeys(spoilerCache')
                 /\ CacheValue(spoilerCache', k) = CacheValue(spoilerCache, k)
            \/ Len(spoilerCache) = LRU_SIZE
                 /\ CacheKeys(spoilerCache') \ CacheKeys(spoilerCache) /= {}]_vars
    /\ [](/\ \A t \in DOMAIN tasks : ~tasks[t].wasCached
          /\ (lastDone.calls = 1 /\ lastDone.wasCached) =>
                (/\ lastDone.fetches = 0 /\ ~lastDone.fault
                 /\ lastDone.result = lastDone.cachedRec
                 /\ lastDone.out \in {"dm", "ephemeral_embed"}))

\* user 8 got the cached record of the old post after both its messages
\* were deleted and the storage channel had left the cache
C17_Witness ==
    /\ lastDone.calls = 1 /\ lastDone.wasCached /\ lastDone.user = 8
    /\ lastDone.result = Some(OldRecord) /\ lastDone.out = "dm"
    /\ ~messages[1].exists /\ ~messages[2].exists /\ ~storageUp

\* C19 as stated: every press of a button that has ended has given exactly
\* one ephemeral response, the record when get_spoiler_cache found it and
\* the 'not found' message otherwise
C19_PressAnswered ==
    lastDone.kind = "button" =>
        /\ lastDone.out \in {"ephemeral_embed", "ephemeral_not_found"}
        /\ lastDone.out = "ephemeral_embed" <=> IsSome(lastDone.result)

\* the part of it that holds: a press whose call of get_spoiler_cache
\* returned has given exactly one response of the right kind
ReturnedPressAnswered ==
    (lastDone.kind = "button" /\ ~lastDone.fault) =>
        /\ lastDone.out \in {"ephemeral_embed", "ephemeral_not_found"}
        /\ lastDone.out = "ephemeral_embed" <=> IsSome(lastDone.result)
        /\ lastDone.out = "ephemeral_embed" =>
              lastDone.shown = Some(to_embed(Get(lastDone.result)))

-----------------------------------------------------------------------------
(* Reveals of the old post that overlap: users 7 and 8 press its button   *)
(* and user 7 adds the marker reaction, the store stays as it is and every *)
(* fetch succeeds                                                          *)

InitOverlap == InitWith(<<OldFrontDoor, OldArchive>>)

NextOverlap ==
    \/ \E t \in Slots, u \in {7, 8} : ButtonPress(t, 1, u)
    \/ \E t \in Slots : ReactionAdd(t, 1, 7, SPOILER_EMOJI_ID)
    \/ \E t \in Slots : FetchFront(t, TRUE)
    \/ \E t \in Slots : FetchArchive(t, TRUE)

SpecOverlap == InitOverlap /\ [][NextOverlap]_vars

\* C20: however the calls of get_spoiler_cache for the old post interleave,
\* every call returns the post's record, after two fetches or none; the
\* cache never has two entries for the post nor more entries than its
\* capacity, and once a call has ended it has the one entry, with that record
C20_ConcurrentReveals ==
    /\ \A i, j \in 1..Len(spoilerCache) :
          spoilerCache[i].key = spoilerCache[j].key => i = j
    /\ Len(spoilerCache) <= LRU_SIZE
    /\ \A i \in 1..Len(spoilerCache) :
          spoilerCache[i].key = 1 /\ spoilerCache[i].value = OldRecord
    /\ lastDone.calls = 1 =>
          /\ lastDone.result = Some(OldRecord) /\ ~lastDone.fault
          /\ lastDone.fetches \in {0, 2}
          /\ Len(spoilerCache) = 1

\* a call that had missed wrote the cache, after its own two fetches, when
\* an overlapping call had already filled it
C20_Witness ==
    /\ lastDone.calls = 1 /\ ~lastDone.wasCached
    /\ lastDone.fetches = 2 /\ lastDone.writes = 1
    /\ lastPut.key = 1 /\ ~lastPut.was_new
    /\ Len(spoilerCache) = 1

-----------------------------------------------------------------------------
(* The command and the reveals that follow it in the same process: every   *)
(* remote call of the command succeeding or failing, then presses of the   *)
(* new post's button and marker reactions of user 7 to any message         *)

InitPosted == InitWith(<<>>)

NextPosted ==
    \/ \E text \in CommandTexts, candidates \in PublishAttachments :
          SpoilerCommand(7, 5, Cat, text, candidates)
    \/ \E ok \in OkOrNot : AttachmentFetched(ok)
    \/ \E ok \in OkOrNot : OriginalDeleted(ok)
    \/ \E ok \in OkOrNot : ArchiveWritten(ok)
    \/ \E ok \in OkOrNot : FrontDoorPosted(ok)
    \/ \E t \in Slots, m \in DOMAIN messages : ButtonPress(t, m, 7)
    \/ \E t \in Slots, m \in DOMAIN messages : ReactionAdd(t, m, 7, SPOILER_EMOJI_ID)
    \/ \E t \in Slots, ok \in OkOrNot : FetchFront(t, ok)
    \/ \E t \in Slots, ok \in OkOrNot : FetchArchive(t, ok)

SpecPosted == InitPosted /\ [][NextPosted]_vars


\* the step in which the spoiler command completes successfully
CommandSucceeds == pub.outcome /= "ok" /\ pub'.outcome = "ok"

\* C18: when the spoiler command completes successfully the cache maps the
\* new front-door post's id to the record redirect_post returned and the
\* post's footer is the id of the storage message; a press of its button
\* while the entry is there is answered with that record and no fetch
C18_PublishCaches ==
    /\ [][CommandSucceeds =>
            LET id == pub'.spoiler_message_id
            IN /\ CacheLookup(spoilerCache', id)
               /\ CacheValue(spoilerCache', id) = Get(pub'.record)
               /\ CanFetch(messages', pub'.channel, id)
               /\ messages'[id].embeds[1].footer_text
                    = Some(IntToStr(pub'.storage_message_id))
               /\ CanFetch(messages', StorageChannel, pub'.storage_message_id)]_vars
    /\ []((/\ pub.outcome = "ok"
           /\ lastDone.calls = 1
           /\ lastDone.message_id = pub.spoiler_message_id)
          => (lastDone.fetches = 0 /\ lastDone.result = pub.record))

\* the button of a post with a text and an attachment was pressed after the
\* command and answered from the cache
C18_Witness ==
    /\ pub.outcome = "ok" /\ pub.text = Some(Boo) /\ pub.files /= <<>>
    /\ lastDone.kind = "button" /\ lastDone.message_id = pub.spoiler_message_id
    /\ lastDone.wasCached /\ lastDone.fetches = 0
    /\ lastDone.out = "ephemeral_embed"
    /\ CacheKeys(spoilerCache) = {pub.spoiler_message_id}

\* the front-door posts: the messages that carry the reveal button
FrontDoorPosts(store) == {m \in DOMAIN store : store[m].exists /\ store[m].view}

\* C23: every front-door post the command has sent has a footer that is the
\* id of a message of the storage channel, the one the same command wrote
\* just before; a command that failed or was rejected has sent no
\* front-door post and has put no key into the cache, and when it failed
\* before or at the write it has sent no message at all
C23_NoPostWithoutArchive ==
    /\ \A m \in FrontDoorPosts(messages) :
          LET footer == ParseInt(messages[m].embeds[1].footer_text)
          IN /\ footer.ok /\ footer.val = m - 1
             /\ CanFetch(messages, StorageChannel, footer.val)
             /\ ~messages[footer.val].view
             /\ messages[m].embeds[1].footer_text = Some(IntToStr(footer.val))
    /\ pub.outcome = "ok" =>
          /\ pub.archive_written
          /\ pub.spoiler_message_id \in FrontDoorPosts(messages)
          /\ pub.storage_message_id = pub.spoiler_message_id - 1
          /\ Decode(messages[pub.storage_message_id]).title = Some(pub.title)
    /\ pub.outcome \in {"failed", "rejected"} =>
          /\ pub.spoiler_message_id = 0
          /\ FrontDoorPosts(messages) = FrontDoorPosts(pub.store_before)
          /\ CacheKeys(spoilerCache) = CacheKeys(pub.cache_before)
          /\ messages = pub.store_before
    /\ CacheKeys(spoilerCache) \subseteq FrontDoorPosts(messages)

\* a front-door post stands on its storage message
C23_Witness ==
    /\ pub.outcome = "ok" /\ pub.files /= <<>>
    /\ FrontDoorPosts(messages) = {pub.spoiler_message_id}
    /\ messages[pub.storage_message_id].attachments = pub.files
    /\ CacheKeys(spoilerCache) = {pub.spoiler_message_id}

\* a command found no storage channel and left no trace
NoStorageFailedCleanly ==
    /\ pub.outcome = "failed" /\ pub.error = "storage_not_found"
    /\ messages = pub.store_before /\ spoilerCache = pub.cache_before

\* a command met an attachment of an unsupported type and left no trace
UnsupportedFailedCleanly ==
    /\ pub.outcome = "failed" /\ pub.error = "unsupported_file"
    /\ messages = pub.store_before /\ spoilerCache = pub.cache_before

\* a command failed at the write of the storage message and left no trace
WriteFailedCleanly ==
    /\ pub.outcome = "failed" /\ pub.error = "could_not_store"
    /\ messages = pub.store_before /\ spoilerCache = pub.cache_before

-----------------------------------------------------------------------------
(* The token of a pair over time: marker reactions of user 7 to the old    *)
(* post and to a message that is no post, and of the bot account 9 to the  *)
(* old post, every fetch succeeding or failing, and the clock              *)

InitToken == InitReaction

NextToken ==
    \/ \E m \in {1, 3} : ReactionAdd(1, m, 7, SPOILER_EMOJI_ID)
    \/ ReactionAdd(1, 1, 9, SPOILER_EMOJI_ID)
    \/ \E ok \in OkOrNot : FetchFront(1, ok)
    \/ \E ok \in OkOrNot : FetchArchive(1, ok)
    \/ Tick(TickStep)

SpecToken == InitToken /\ [][NextToken]_vars

\* the step of a marker reaction that the cooldown turns away
LimitedArrives ==
    /\ tasks' = tasks
    /\ lastDone'.kind = "reaction" /\ lastDone'.limited
    /\ lastDone' /= lastDone \/ cooldown' /= cooldown \/ lastAllow' /= lastAllow

\* whether the pair is turned away at time at, the mapping being mapping
DeniedAt(mapping, message_id, user_id, at) ==
    is_rate_limited(mapping, message_id, user_id, at).limited

\* C21: a marker reaction that is rate limited makes no fetch, does not read
\* or write the cache, sends nothing, and leaves the time from which the
\* pair is let through again where it was
C21_LimitedIsNoOp ==
    /\ [][LimitedArrives =>
            /\ spoilerCache' = spoilerCache /\ accessed' = accessed
            /\ messages' = messages
            /\ \A d \in 0..(per + TickStep) :
                  DeniedAt(cooldown', lastDone'.message_id, lastDone'.user, now + d)
                    = DeniedAt(cooldown, lastDone'.message_id, lastDone'.user, now + d)]_vars
    /\ [](lastDone.limited =>
            /\ lastDone.calls = 0 /\ lastDone.fetches = 0 /\ lastDone.writes = 0
            /\ lastDone.out = "none" /\ lastDone.shown = None
            /\ ~lastDone.allows)

\* user 7 was turned away on the old post 5 seconds after the reaction that
\* had brought the record, which is still cached
C21_Witness ==
    /\ lastDone.kind = "reaction" /\ lastDone.limited
    /\ lastDone.message_id = 1 /\ lastDone.user = 7
    /\ lastAllow.called /\ lastAllow.since = TickStep /\ ~lastAllow.allowed
    /\ CacheKeys(spoilerCache) = {1}

\* the marker reaction that ended last was let through and sent nothing
AllowedInVain ==
    /\ lastDone.kind = "reaction" /\ lastDone.emoji = SPOILER_EMOJI_ID
    /\ lastDone.allows /\ ~lastDone.limited /\ lastDone.out = "none"

\* C22: a marker reaction that is let through takes the pair's token before
\* the user is looked at and before get_spoiler_cache is called, and keeps
\* it when nothing is sent (a bot, or None from get_spoiler_cache): the pair
\* is turned away up to 10 seconds after that reaction, and a reaction
\* turned away makes no fetch
C22_TokenNotReturned ==
    /\ AllowedInVain =>
          LET k == <<lastDone.message_id, lastDone.user>>
          IN /\ k \in DOMAIN consumedAt
             /\ \A at \in now..(consumedAt[k] + per) :
                   DeniedAt(cooldown, lastDone.message_id, lastDone.user, at)
    /\ (lastDone.kind = "reaction" /\ lastDone.limited) =>
          LET k == <<lastDone.message_id, lastDone.user>>
          IN /\ k \in DOMAIN consumedAt
             /\ lastDone.calls = 0 /\ lastDone.fetches = 0

\* the bot account's second reaction to the old post, 10 seconds after its
\* first, was turned away; so was user 7's second reaction to message 3,
\* which is no post
C22_Witness ==
    /\ lastDone.kind = "reaction" /\ lastDone.limited /\ lastDone.user = 9
    /\ lastAllow.key = <<1, 9>> /\ lastAllow.since = per /\ ~lastAllow.allowed
    /\ <<3, 7>> \in DOMAIN consumedAt /\ now - consumedAt[<<3, 7>>] <= per
    /\ DeniedAt(cooldown, 3, 7, now)
    /\ spoilerCache = <<>>

====
